---- MODULE Spec2Model ----
(***************************************************************************)
(* Movement-and-collision core of super_cat: Entity.move_and_collide,      *)
(* Player.handle_input / after_physics, TileMap.friction_under and the     *)
(* frame loop of Game.run.                                                  *)
(*                                                                         *)
(* Units.  Game.run computes dt = clock.tick(FPS) / 1000.0, so every dt is *)
(* a whole number of milliseconds.  The model keeps time in ms, velocity   *)
(* in px/s * MS_PER_S and position in px * MS_PER_S * MS_PER_S, so that    *)
(* `vel += accel * dt` and `pos += vel * dt` are exact integer operations. *)
(* Floating-point rounding of the Python floats is not modelled: values    *)
(* are the exact rationals the code's expressions denote.                  *)
(***************************************************************************)
EXTENDS Integers, Sequences, FiniteSets, TLC

\* ------------------------------------------------------------------ units
MS_PER_S == 1000

V(pxPerSec) == pxPerSec * MS_PER_S

P(px) == px * MS_PER_S * MS_PER_S

\* -------------------------------------------------------------- settings
TILE == 32

JUMP_SPEED == 640

GRAVITY == 1800

TERMINAL_V == 1400

MAX_SPEED == 260

ACCEL_GROUND == 2800

DECEL_GROUND == 3200

ACCEL_AIR == 900

DECEL_AIR == 1600

FRICTION_GROUND == 1000

FRICTION_AIR == 300

\* seconds in the source, milliseconds here
COYOTE_TIME == 200

JUMP_BUFFER_TIME == 240

DROP_THROUGH_TIME == 150

\* Player.__init__: super().__init__(pos, (24, 32), COLOR_PLAYER)
PLAYER_W == 24

PLAYER_H == 32

\* `if self.vel.y < 30: self.vel.y = 30` in after_physics
DROP_NUDGE == 30

\* `abs(self.vel.x) > 1e-3` of _state_from_motion: 0.001 px/s
RUN_EPSILON == 1

\* Enemy.__init__: size (24, 28)
ENEMY_W == 24

ENEMY_H == 28

\* Enemy.__init__: patrol_range=160, speed=80
PATROL_RANGE == 160

ENEMY_SPEED == 80

\* `self.player.vel.y = -JUMP_SPEED * 0.55` of a stomp, in percent
STOMP_BOUNCE == 55

\* `abs(vx) > 1e-5` of _next_velocity_x: 1 / 1e-5
DECEL_EPSILON_INV == 100000

Min(a, b) == IF a <= b THEN a ELSE b

Max(a, b) == IF a >= b THEN a ELSE b

Abs(a) == IF a >= 0 THEN a ELSE -a

\* ----------------------------------------------------------------- rects
\* pygame rect as [x, y, w, h]; left = x, right = x + w, top = y, bottom = y + h
Rect(x, y, w, h) == [x |-> x, y |-> y, w |-> w, h |-> h]

Left(r) == r.x

Right(r) == r.x + r.w

Top(r) == r.y

Bottom(r) == r.y + r.h

\* pygame's colliderect: strict overlap, shared edges do not collide
colliderect(a, b) ==
    /\ Left(a) < Right(b)
    /\ Right(a) > Left(b)
    /\ Top(a) < Bottom(b)
    /\ Bottom(a) > Top(b)

Hits(rect, tiles) == SelectSeq(tiles, LAMBDA t : colliderect(rect, t))

\* ------------------------------------------------- Entity.move_and_collide
\* `for t in hits:` of the horizontal pass; every hit is applied in list order
RECURSIVE push_x(_, _, _)
push_x(rect, vx, hits) ==
    IF hits = <<>> THEN rect
    ELSE LET t == Head(hits)
             r == IF vx > 0 THEN [rect EXCEPT !.x = Left(t) - rect.w]
                  ELSE IF vx < 0 THEN [rect EXCEPT !.x = Right(t)]
                  ELSE rect
         IN push_x(r, vx, Tail(hits))

\* a vertical pass that sets on_ground on a ceiling hit too
RECURSIVE push_y_ceiling_grounds(_, _)
push_y_ceiling_grounds(s, hits) ==
    IF hits = <<>> THEN s
    ELSE LET t == Head(hits)
             s2 == IF s.vy > 0
                   THEN [rect |-> [s.rect EXCEPT !.y = Top(t) - s.rect.h],
                         vy |-> 0, on_ground |-> TRUE]
                   ELSE IF s.vy < 0
                   THEN [rect |-> [s.rect EXCEPT !.y = Bottom(t)],
                         vy |-> 0, on_ground |-> TRUE]
                   ELSE s
         IN push_y_ceiling_grounds(s2, Tail(hits))

\* `for t in hits:` of the vertical pass over solids; s = [rect, vy, on_ground]
RECURSIVE push_y(_, _)
push_y(s, hits) ==
    IF hits = <<>> THEN s
    ELSE LET t == Head(hits)
             s2 == IF s.vy > 0
                   THEN [rect |-> [s.rect EXCEPT !.y = Top(t) - s.rect.h],
                         vy |-> 0, on_ground |-> TRUE]
                   ELSE IF s.vy < 0
                   THEN [rect |-> [s.rect EXCEPT !.y = Bottom(t)],
                         vy |-> 0, on_ground |-> s.on_ground]
                   ELSE s
         IN push_y(s2, Tail(hits))

\* the one-way hit list: overlapping now and coming from above
one_way_hits(rect, prev_bottom, one_ways) ==
    SelectSeq(one_ways, LAMBDA t : colliderect(rect, t) /\ prev_bottom <= Top(t))

\* a one-way landing that grounds the body and lets it keep its speed
RECURSIVE land_one_way_moving(_, _)
land_one_way_moving(s, hits) ==
    IF hits = <<>> THEN s
    ELSE LET t == Head(hits)
         IN land_one_way_moving([rect |-> [s.rect EXCEPT !.y = Top(t) - s.rect.h],
                                 vy |-> s.vy, on_ground |-> TRUE], Tail(hits))

\* `for t in hits:` of the one-way pass
RECURSIVE land_one_way(_, _)
land_one_way(s, hits) ==
    IF hits = <<>> THEN s
    ELSE LET t == Head(hits)
         IN land_one_way([rect |-> [s.rect EXCEPT !.y = Top(t) - s.rect.h],
                          vy |-> 0, on_ground |-> TRUE], Tail(hits))

\* gravity without a terminal velocity
gravity_vy_uncapped(vy, dt) == vy + GRAVITY * dt

\* velocity.y after gravity, capped at terminal velocity
gravity_vy(vy, dt) == Min(vy + GRAVITY * dt, V(TERMINAL_V))

\* rectangle after the horizontal pass
horizontal_pass(e, dt, solids) ==
    LET r1 == [e.rect EXCEPT !.x = @ + e.vel.x * dt]
    IN push_x(r1, e.vel.x, Hits(r1, solids))

\* a one-way pass that counts the ignore timer down but collides all the same
one_way_pass_not_ignoring(s, prev_bottom, timer, dt, one_ways) ==
    [s |-> IF s.vy >= 0
           THEN land_one_way(s, one_way_hits(s.rect, prev_bottom, one_ways))
           ELSE s,
     timer |-> Max(0, timer - dt)]

\* a one-way pass that skips the platforms but leaves the ignore timer running
one_way_pass_unticked(s, prev_bottom, timer, dt, one_ways) ==
    IF timer > 0
    THEN [s |-> s, timer |-> timer]
    ELSE [s |-> IF s.vy >= 0
                THEN land_one_way(s, one_way_hits(s.rect, prev_bottom, one_ways))
                ELSE s,
          timer |-> timer]

\* part 2) of the vertical pass: one-way platforms, or the ignore timer's tick
one_way_pass(s, prev_bottom, timer, dt, one_ways) ==
    IF timer > 0
    THEN [s |-> s, timer |-> Max(0, timer - dt)]
    ELSE [s |-> IF s.vy >= 0
                THEN land_one_way(s, one_way_hits(s.rect, prev_bottom, one_ways))
                ELSE s,
          timer |-> timer]

\* a physics step that stops the body horizontally at a wall
move_and_collide_stopping(e, dt, solids, one_ways) ==
    LET r1 == [e.rect EXCEPT !.x = @ + e.vel.x * dt]
        r2 == horizontal_pass(e, dt, solids)
        prev_bottom == Bottom(r2)
        vy1 == gravity_vy(e.vel.y, dt)
        r3 == [r2 EXCEPT !.y = @ + vy1 * dt]
        s4 == push_y([rect |-> r3, vy |-> vy1, on_ground |-> FALSE], Hits(r3, solids))
        o == one_way_pass(s4, prev_bottom, e.ignore_one_way_timer, dt, one_ways)
    IN [e EXCEPT !.rect = o.s.rect,
                 !.vel = [x |-> IF Hits(r1, solids) = <<>> THEN e.vel.x ELSE 0,
                          y |-> o.s.vy],
                 !.on_ground = o.s.on_ground,
                 !.ignore_one_way_timer = o.timer]

move_and_collide(e, dt, solids, one_ways) ==
    LET r2 == horizontal_pass(e, dt, solids)
        prev_bottom == Bottom(r2)
        vy1 == gravity_vy(e.vel.y, dt)
        r3 == [r2 EXCEPT !.y = @ + vy1 * dt]
        s4 == push_y([rect |-> r3, vy |-> vy1, on_ground |-> FALSE], Hits(r3, solids))
        o == one_way_pass(s4, prev_bottom, e.ignore_one_way_timer, dt, one_ways)
    IN [e EXCEPT !.rect = o.s.rect,
                 !.vel = [x |-> e.vel.x, y |-> o.s.vy],
                 !.on_ground = o.s.on_ground,
                 !.ignore_one_way_timer = o.timer]

\* ------------------------------------------------------------------ Player
_sign(x) == IF x > 0 THEN 1 ELSE IF x < 0 THEN -1 ELSE 0

_approach(current, target, delta) ==
    IF current < target THEN Min(current + delta, target)
    ELSE Max(current - delta, target)

_clamp_to_max_speed(vx) ==
    IF Abs(vx) <= V(MAX_SPEED) THEN vx ELSE V(MAX_SPEED) * _sign(vx)

\* a velocity update that brakes an opposing velocity however small
_next_velocity_x_no_epsilon(unit, vx, dt, input_dir, on_ground) ==
    LET target_vx == input_dir * MAX_SPEED * unit
        same_dir == _sign(vx) = _sign(target_vx) \/ target_vx = 0
        need_decel == ~same_dir
        accel == IF on_ground THEN ACCEL_GROUND ELSE ACCEL_AIR
        decel == IF on_ground THEN DECEL_GROUND ELSE DECEL_AIR
        friction == IF on_ground THEN FRICTION_GROUND ELSE FRICTION_AIR
    IN IF input_dir # 0
       THEN LET v1 == IF need_decel THEN _approach(vx, 0, decel * dt) ELSE vx
            IN _approach(v1, target_vx, accel * dt)
       ELSE _approach(vx, 0, dt * friction)

\* _next_velocity_x on a velocity counted in 1/unit px/s and a dt counted in
\* 1/unit s; abs(vx) > 1e-5 px/s is Abs(vx) > unit / 100000
_next_velocity_x_at(unit, vx, dt, input_dir, on_ground) ==
    LET target_vx == input_dir * MAX_SPEED * unit
        same_dir == _sign(vx) = _sign(target_vx) \/ target_vx = 0
        need_decel == ~same_dir /\ Abs(vx) > unit \div DECEL_EPSILON_INV
        accel == IF on_ground THEN ACCEL_GROUND ELSE ACCEL_AIR
        decel == IF on_ground THEN DECEL_GROUND ELSE DECEL_AIR
        friction == IF on_ground THEN FRICTION_GROUND ELSE FRICTION_AIR
    IN IF input_dir # 0
       THEN LET v1 == IF need_decel THEN _approach(vx, 0, decel * dt) ELSE vx
            IN _approach(v1, target_vx, accel * dt)
       ELSE _approach(vx, 0, dt * friction)

\* a velocity update that uses the air acceleration on the ground too
_next_velocity_x_air_accel(vx, dt, input_dir, on_ground) ==
    LET target_vx == input_dir * V(MAX_SPEED)
        same_dir == _sign(vx) = _sign(target_vx) \/ target_vx = 0
        need_decel == ~same_dir /\ Abs(vx) > 0
        decel == IF on_ground THEN DECEL_GROUND ELSE DECEL_AIR
        friction == IF on_ground THEN FRICTION_GROUND ELSE FRICTION_AIR
    IN IF input_dir # 0
       THEN LET v1 == IF need_decel THEN _approach(vx, 0, decel * dt) ELSE vx
            IN _approach(v1, target_vx, ACCEL_AIR * dt)
       ELSE _approach(vx, 0, dt * friction)

\* the game's velocities are whole numbers of 1/1000 px/s and its dt of ms,
\* where abs(vx) > 1e-5 is vx # 0
_next_velocity_x(vx, dt, input_dir, on_ground) ==
    _next_velocity_x_at(MS_PER_S, vx, dt, input_dir, on_ground)

\* keys = [left, right, jump, down]: K_LEFT or K_a, K_RIGHT or K_d,
\* K_SPACE or K_UP, K_DOWN or K_s
_set_direction(p, keys) ==
    LET d == (IF keys.right THEN 1 ELSE 0) - (IF keys.left THEN 1 ELSE 0)
    IN [p EXCEPT !.input_dir = d,
                 !.facing = IF d # 0 THEN (IF d > 0 THEN 1 ELSE -1) ELSE @]

\* a drop intent that leaves a buffered jump pending
_record_drop_intent_keeps_jump(p) ==
    [p EXCEPT !.drop_intent_timer = DROP_THROUGH_TIME,
              !.suppress_jump_timer = Max(@, DROP_THROUGH_TIME \div 2),
              !.coyote_timer = 0]

_record_drop_intent(p) ==
    [p EXCEPT !.drop_intent_timer = DROP_THROUGH_TIME,
              !.suppress_jump_timer = Max(@, DROP_THROUGH_TIME \div 2),
              !.jump_buffer_timer = 0,
              !.coyote_timer = 0]

\* a jump intent buffered for COYOTE_TIME instead of JUMP_BUFFER_TIME
_record_jump_intent_short(p) == [p EXCEPT !.jump_buffer_timer = COYOTE_TIME]

_record_jump_intent(p) == [p EXCEPT !.jump_buffer_timer = JUMP_BUFFER_TIME]

\* a countdown that does not clamp at zero
tick_unclamped(t, dt) == IF t > 0 THEN t - dt ELSE t

tick(t, dt) == IF t > 0 THEN Max(0, t - dt) ELSE t

_tick_timers(p, dt) ==
    [p EXCEPT !.jump_buffer_timer = tick(@, dt),
              !.suppress_jump_timer = tick(@, dt),
              !.drop_intent_timer = tick(@, dt)]

\* an input step that integrates the acceleration without any speed limit
handle_input_unlimited(p, keys, dt) ==
    LET p1 == _set_direction(p, keys)
        accel == IF p1.on_ground THEN ACCEL_GROUND ELSE ACCEL_AIR
        p2 == [p1 EXCEPT !.vel.x = @ + p1.input_dir * accel * dt]
        edge == keys.jump /\ ~p.prev_jump_down
        p3 == IF keys.down /\ edge THEN _record_drop_intent(p2)
              ELSE IF edge THEN _record_jump_intent(p2)
              ELSE p2
        p4 == [p3 EXCEPT !.prev_jump_down = keys.jump]
    IN _tick_timers(p4, dt)

\* an input step that takes the held button, not its edge, for an intent
handle_input_level(p, keys, dt) ==
    LET p1 == _set_direction(p, keys)
        vx == _next_velocity_x(p1.vel.x, dt, p1.input_dir, p1.on_ground)
        p2 == [p1 EXCEPT !.vel.x = _clamp_to_max_speed(vx)]
        p3 == IF keys.down /\ keys.jump THEN _record_drop_intent(p2)
              ELSE IF keys.jump THEN _record_jump_intent(p2)
              ELSE p2
        p4 == [p3 EXCEPT !.prev_jump_down = keys.jump]
    IN _tick_timers(p4, dt)

handle_input(p, keys, dt) ==
    LET p1 == _set_direction(p, keys)
        vx == _next_velocity_x(p1.vel.x, dt, p1.input_dir, p1.on_ground)
        p2 == [p1 EXCEPT !.vel.x = _clamp_to_max_speed(vx)]
        edge == keys.jump /\ ~p.prev_jump_down
        p3 == IF keys.down /\ edge THEN _record_drop_intent(p2)
              ELSE IF edge THEN _record_jump_intent(p2)
              ELSE p2
        p4 == [p3 EXCEPT !.prev_jump_down = keys.jump]
    IN _tick_timers(p4, dt)

\* a post-physics step that allows a jump on the ground only (no coyote time)
after_physics_no_coyote(p, dt) ==
    LET p1 == IF p.on_ground THEN [p EXCEPT !.coyote_timer = COYOTE_TIME]
              ELSE [p EXCEPT !.coyote_timer = tick(@, dt)]
    IN IF p1.drop_intent_timer > 0 /\ p1.on_ground
       THEN [p1 EXCEPT !.ignore_one_way_timer = DROP_THROUGH_TIME,
                       !.suppress_jump_timer = Max(@, DROP_THROUGH_TIME \div 2),
                       !.drop_intent_timer = 0,
                       !.vel.y = IF @ < V(DROP_NUDGE) THEN V(DROP_NUDGE) ELSE @]
       ELSE IF p1.suppress_jump_timer > 0 THEN p1
       ELSE IF p1.jump_buffer_timer > 0 /\ p1.on_ground
       THEN [p1 EXCEPT !.vel.y = -V(JUMP_SPEED),
                       !.on_ground = FALSE,
                       !.coyote_timer = 0,
                       !.jump_buffer_timer = 0]
       ELSE p1

\* a post-physics step that fires a buffered jump wherever the body is
after_physics_anywhere(p, dt) ==
    LET p1 == IF p.on_ground THEN [p EXCEPT !.coyote_timer = COYOTE_TIME]
              ELSE [p EXCEPT !.coyote_timer = tick(@, dt)]
    IN IF p1.drop_intent_timer > 0 /\ p1.on_ground
       THEN [p1 EXCEPT !.ignore_one_way_timer = DROP_THROUGH_TIME,
                       !.suppress_jump_timer = Max(@, DROP_THROUGH_TIME \div 2),
                       !.drop_intent_timer = 0,
                       !.vel.y = IF @ < V(DROP_NUDGE) THEN V(DROP_NUDGE) ELSE @]
       ELSE IF p1.suppress_jump_timer > 0 THEN p1
       ELSE IF p1.jump_buffer_timer > 0
       THEN [p1 EXCEPT !.vel.y = -V(JUMP_SPEED),
                       !.on_ground = FALSE,
                       !.coyote_timer = 0,
                       !.jump_buffer_timer = 0]
       ELSE p1

\* a post-physics step that consumes a drop intent in the air too
after_physics_consumes_in_air(p, dt) ==
    LET p1 == IF p.on_ground THEN [p EXCEPT !.coyote_timer = COYOTE_TIME]
              ELSE [p EXCEPT !.coyote_timer = tick(@, dt)]
        can_jump_now == p1.on_ground \/ p1.coyote_timer > 0
    IN IF p1.drop_intent_timer > 0
       THEN [p1 EXCEPT !.ignore_one_way_timer = DROP_THROUGH_TIME,
                       !.suppress_jump_timer = Max(@, DROP_THROUGH_TIME \div 2),
                       !.drop_intent_timer = 0,
                       !.vel.y = IF @ < V(DROP_NUDGE) THEN V(DROP_NUDGE) ELSE @]
       ELSE IF p1.suppress_jump_timer > 0 THEN p1
       ELSE IF p1.jump_buffer_timer > 0 /\ can_jump_now
       THEN [p1 EXCEPT !.vel.y = -V(JUMP_SPEED),
                       !.on_ground = FALSE,
                       !.coyote_timer = 0,
                       !.jump_buffer_timer = 0]
       ELSE p1

after_physics(p, dt) ==
    LET p1 == IF p.on_ground THEN [p EXCEPT !.coyote_timer = COYOTE_TIME]
              ELSE [p EXCEPT !.coyote_timer = tick(@, dt)]
        can_jump_now == p1.on_ground \/ p1.coyote_timer > 0
    IN IF p1.drop_intent_timer > 0 /\ p1.on_ground
       THEN [p1 EXCEPT !.ignore_one_way_timer = DROP_THROUGH_TIME,
                       !.suppress_jump_timer = Max(@, DROP_THROUGH_TIME \div 2),
                       !.drop_intent_timer = 0,
                       !.vel.y = IF @ < V(DROP_NUDGE) THEN V(DROP_NUDGE) ELSE @]
       ELSE IF p1.suppress_jump_timer > 0 THEN p1
       ELSE IF p1.jump_buffer_timer > 0 /\ can_jump_now
       THEN [p1 EXCEPT !.vel.y = -V(JUMP_SPEED),
                       !.on_ground = FALSE,
                       !.coyote_timer = 0,
                       !.jump_buffer_timer = 0]
       ELSE p1

\* a classifier that takes a body at the apex (vel.y = 0) for a rising one
_state_from_motion_apex(p) ==
    IF p.on_ground
    THEN (IF Abs(p.vel.x) > RUN_EPSILON THEN "run" ELSE "idle")
    ELSE (IF p.vel.y <= 0 THEN "jump" ELSE "fall")

_state_from_motion(p) ==
    IF p.on_ground
    THEN (IF Abs(p.vel.x) > RUN_EPSILON THEN "run" ELSE "idle")
    ELSE (IF p.vel.y < 0 THEN "jump" ELSE "fall")

\* ------------------------------------------------------------------- Enemy
Enemy(x, y) ==
    [rect |-> Rect(x, y, P(ENEMY_W), P(ENEMY_H)),
     vel |-> [x |-> 0, y |-> 0],
     on_ground |-> FALSE,
     ignore_one_way_timer |-> 0,
     base_x |-> x,
     patrol_range |-> P(PATROL_RANGE),
     speed |-> V(ENEMY_SPEED),
     direction |-> 1]

update_ai(en) ==
    LET left == en.base_x - en.patrol_range
        right == en.base_x + en.patrol_range
        d == IF en.rect.x <= left THEN 1
             ELSE IF en.rect.x >= right THEN -1
             ELSE en.direction
    IN [en EXCEPT !.direction = d, !.vel.x = d * en.speed]

\* `for en in self.enemies: en.update_ai()`
RECURSIVE update_ai_all(_)
update_ai_all(ens) ==
    IF ens = <<>> THEN <<>>
    ELSE <<update_ai(Head(ens))>> \o update_ai_all(Tail(ens))

\* `for en in self.enemies: en.move_and_collide(dt, solids, one_ways)`
RECURSIVE move_all(_, _, _, _)
move_all(ens, dt, solids, one_ways) ==
    IF ens = <<>> THEN <<>>
    ELSE <<move_and_collide(Head(ens), dt, solids, one_ways)>>
         \o move_all(Tail(ens), dt, solids, one_ways)

\* rect.centery
centery(r) == r.y + r.h \div 2

\* the player-enemy interaction of Game.run over self.enemies[:]: a stomp
\* removes the enemy and bounces the player, any other contact respawns the
\* player; s.kept collects the enemies left in the list
RECURSIVE interact(_, _)
interact(s, ens) ==
    IF ens = <<>> THEN s
    ELSE LET en == Head(ens)
         IN IF ~colliderect(s.player.rect, en.rect)
            THEN interact([s EXCEPT !.kept = Append(@, en)], Tail(ens))
            ELSE IF s.player.vel.y > 0
                    /\ Bottom(s.player.rect) <= centery(en.rect)
            THEN interact([s EXCEPT !.player.vel.y =
                               -((V(JUMP_SPEED) * STOMP_BOUNCE) \div 100)],
                          Tail(ens))
            ELSE interact([s EXCEPT !.player.rect.x = P(TILE * 3),
                                    !.player.rect.y = P(TILE * 2),
                                    !.player.vel = [x |-> 0, y |-> 0],
                                    !.kept = Append(@, en),
                                    !.respawned = TRUE],
                          Tail(ens))

\* ----------------------------------------------------------------- TileMap
\* tile properties (TileProps): solid, one_way, friction; friction in percent
TileProps(solid, one_way, friction) ==
    [solid |-> solid, one_way |-> one_way, friction |-> friction]

\* TilesetProps.get: a tile type missing from the table has the defaults
props_get(props, idx) ==
    IF idx \in DOMAIN props THEN props[idx] ELSE TileProps(FALSE, FALSE, 100)

solid_indices(props) == {i \in DOMAIN props : props[i].solid}

one_way_indices(props) == {i \in DOMAIN props : props[i].one_way}

\* build_rects_of_indices: one TILE x TILE rect per matching cell, row-major
RECURSIVE rects_of_row(_, _, _, _)
rects_of_row(row, y, x, indices) ==
    IF x > Len(row) THEN <<>>
    ELSE (IF row[x] \in indices
          THEN <<Rect(P((x - 1) * TILE), P((y - 1) * TILE), P(TILE), P(TILE))>>
          ELSE <<>>) \o rects_of_row(row, y, x + 1, indices)

RECURSIVE build_rects_of_indices(_, _, _)
build_rects_of_indices(grid, indices, y) ==
    IF y > Len(grid) THEN <<>>
    ELSE rects_of_row(grid[y], y, 1, indices)
         \o build_rects_of_indices(grid, indices, y + 1)

\* the tile types that occur in the grid (-1 is the empty cell)
grid_indices(grid) ==
    {grid[y][x] : y \in 1..Len(grid), x \in 1..(IF Len(grid) = 0 THEN 0 ELSE Len(grid[1]))}

solid_rects(tm) ==
    LET si == IF solid_indices(tm.props) # {} THEN solid_indices(tm.props)
              ELSE {i \in grid_indices(tm.grid) : i >= 0}
    IN build_rects_of_indices(tm.grid, si, 1)

one_way_rects(tm) ==
    IF one_way_indices(tm.props) = {} THEN <<>>
    ELSE build_rects_of_indices(tm.grid, one_way_indices(tm.props), 1)

\* Python's int(): truncation toward zero of a position, in whole pixels
int_px(pos) == IF pos >= 0 THEN pos \div P(1) ELSE -((-pos) \div P(1))

RECURSIVE Gcd(_, _)
Gcd(a, b) == IF b = 0 THEN a ELSE Gcd(b, a % b)

\* a friction coefficient num/den, in percent, in lowest terms
Frac(num, den) == [num |-> num \div Gcd(num, den), den |-> den \div Gcd(num, den)]

RECURSIVE SumSeq(_)
SumSeq(q) == IF q = <<>> THEN 0 ELSE Head(q) + SumSeq(Tail(q))

\* range(start_col, end_col + 1) filtered to the non-empty cells of the row
RECURSIVE indices_under(_, _, _)
indices_under(row, col, end_col) ==
    IF col > end_col THEN <<>>
    ELSE (IF row[col + 1] # -1 THEN <<row[col + 1]>> ELSE <<>>)
         \o indices_under(row, col + 1, end_col)

friction_under(tm, rect) ==
    IF Len(tm.grid) = 0 THEN Frac(100, 1)
    ELSE LET h == Len(tm.grid)
             w == Len(tm.grid[1])
             sample_y == int_px(Bottom(rect)) + 1
             row == sample_y \div TILE
             left == int_px(Left(rect))
             right == int_px(Right(rect)) - 1
             start_col == Max(0, left \div TILE)
             end_col == Min(w - 1, right \div TILE)
         IN IF row < 0 \/ row >= h THEN Frac(100, 1)
            ELSE LET under == indices_under(tm.grid[row + 1], start_col, end_col)
                     frictions == [i \in 1..Len(under) |->
                                      props_get(tm.props, under[i]).friction]
                 IN IF Len(frictions) = 0 THEN Frac(100, 1)
                    ELSE Frac(SumSeq(frictions), Len(frictions))

\* -------------------------------------------------------------- the worlds
\* Tile types of the maps: 0 solid, 1 one-way platform, 2 solid ice
Props == (0 :> TileProps(TRUE, FALSE, 100)) @@ (1 :> TileProps(FALSE, TRUE, 100))
         @@ (2 :> TileProps(TRUE, FALSE, 50))

\* a corridor one tile high under a ceiling two tiles thick, walls left and
\* right, ice under the spawn point
Corridor ==
    [grid |-> << << 0,  0,  0,  0,  0,  0>>,
                 << 0,  0,  0,  0,  0,  0>>,
                 << 0, -1, -1, -1, -1,  0>>,
                 << 0,  0,  2,  2,  0,  0>> >>,
     props |-> Props]

\* a one-way platform under the spawn point, open air around it and a solid
\* floor three tiles below
Platform ==
    [grid |-> << <<-1, -1, -1, -1, -1, -1>>,
                 <<-1, -1, -1, -1, -1, -1>>,
                 <<-1, -1, -1, -1, -1, -1>>,
                 <<-1, -1,  1,  1, -1, -1>>,
                 <<-1, -1, -1, -1, -1, -1>>,
                 <<-1, -1, -1, -1, -1, -1>>,
                 << 0,  0,  0,  0,  0,  0>> >>,
     props |-> Props]

\* the corridor with a one-way tile set into the lower row of its ceiling,
\* beside the column of the spawn point
Loft ==
    [grid |-> << << 0,  0,  0,  0,  0,  0>>,
                 << 0,  0,  1,  0,  0,  0>>,
                 << 0, -1, -1, -1, -1,  0>>,
                 << 0,  0,  2,  2,  0,  0>> >>,
     props |-> Props]

\* ice and a tile type the table does not know (7) in the top row, three
\* ice tiles in columns 2-4 of the bottom row
Rink ==
    [grid |-> << << 2,  2,  0, -1,  7,  2>>,
                 <<-1, -1, -1, -1, -1, -1>>,
                 <<-1, -1, -1, -1, -1, -1>>,
                 << 0,  0,  2,  2,  2, -1>> >>,
     props |-> Props]

\* a one-way platform one tile below the spawn point, a solid floor under it
Perch ==
    [grid |-> << <<-1, -1, -1, -1, -1, -1>>,
                 <<-1, -1, -1, -1, -1, -1>>,
                 <<-1, -1, -1, -1, -1, -1>>,
                 <<-1, -1, -1, -1, -1, -1>>,
                 <<-1, -1,  1,  1, -1, -1>>,
                 <<-1, -1, -1, -1, -1, -1>>,
                 << 0,  0,  0,  0,  0,  0>> >>,
     props |-> Props]

\* a one-way platform under the spawn point and nothing else: open air
\* around and below it
Raft ==
    [grid |-> << <<-1, -1, -1, -1, -1, -1>>,
                 <<-1, -1, -1, -1, -1, -1>>,
                 <<-1, -1, -1, -1, -1, -1>>,
                 <<-1, -1,  1,  1, -1, -1>> >>,
     props |-> Props]

\* a map whose CSV file has no rows
Void == [grid |-> <<>>, props |-> Props]

CorridorSolids == solid_rects(Corridor)

CorridorOneWays == one_way_rects(Corridor)

PlatformSolids == solid_rects(Platform)

PlatformOneWays == one_way_rects(Platform)

LoftSolids == solid_rects(Loft)

LoftOneWays == one_way_rects(Loft)

\* ------------------------------------------------------------ play sessions
\* A session fixes what Game.__init__ loads (the map) and what the clock and
\* the keyboard may supply in each frame.
Keys(lefts, rights, jumps, downs) ==
    [left : lefts, right : rights, jump : jumps, down : downs]

AllKeys == Keys(BOOLEAN, BOOLEAN, BOOLEAN, BOOLEAN)

MaxFramesCorridor == 4

MaxFramesPlatform == 4

MaxFramesDrop == 10

MaxFramesLedge == 10

MaxFramesRun == 23

MaxFramesLoft == 5

MaxFramesPerch == 8

MaxFramesRaft == 12

\* "corridor", "platform": every key, few frames; "drop": jump and down on
\* the platform; "ledge": right and jump on the platform; "run": right only
\* in the corridor; "loft": left and jump in the loft
Sessions == {"corridor", "platform", "drop", "ledge", "run"}

InCorridor(s) == s \in {"corridor", "run"}

TilemapOf(s) ==
    IF InCorridor(s) THEN Corridor
    ELSE IF s = "loft" THEN Loft
    ELSE IF s = "rink" THEN Rink
    ELSE IF s = "perch" THEN Perch
    ELSE IF s = "raft" THEN Raft
    ELSE IF s = "void" THEN Void ELSE Platform

SolidsOf(s) ==
    IF InCorridor(s) THEN CorridorSolids
    ELSE IF s = "loft" THEN LoftSolids
    ELSE IF s \in {"rink", "void", "perch", "raft"} THEN solid_rects(TilemapOf(s))
    ELSE PlatformSolids

OneWaysOf(s) ==
    IF InCorridor(s) THEN CorridorOneWays
    ELSE IF s = "loft" THEN LoftOneWays
    ELSE IF s \in {"rink", "void", "perch", "raft"} THEN one_way_rects(TilemapOf(s))
    ELSE PlatformOneWays

KeysOf(s) ==
    CASE s = "corridor" -> AllKeys
      [] s = "platform" -> AllKeys
      [] s = "drop" -> Keys({FALSE}, {FALSE}, BOOLEAN, BOOLEAN)
      [] s = "ledge" -> Keys({FALSE}, BOOLEAN, BOOLEAN, {FALSE})
      [] s = "run" -> Keys({FALSE}, BOOLEAN, {FALSE}, {FALSE})
      [] s = "loft" -> Keys(BOOLEAN, {FALSE}, BOOLEAN, {FALSE})
      [] s = "perch" -> Keys({FALSE}, {FALSE}, BOOLEAN, BOOLEAN)
      [] s = "raft" -> Keys({FALSE}, {FALSE}, BOOLEAN, BOOLEAN)

\* clock.tick(FPS) in ms: 50 is a steady 20 fps, 70 a slow frame
DtsOf(s) ==
    CASE s = "corridor" -> {50, 70}
      [] s = "platform" -> {70}
      [] s = "drop" -> {25, 50}
      [] s = "ledge" -> {50}
      [] s = "run" -> {50}
      [] s = "loft" -> {50, 70}
      [] s = "perch" -> {25}
      [] s = "raft" -> {70}

FramesOf(s) ==
    CASE s = "corridor" -> MaxFramesCorridor
      [] s = "platform" -> MaxFramesPlatform
      [] s = "drop" -> MaxFramesDrop
      [] s = "ledge" -> MaxFramesLedge
      [] s = "run" -> MaxFramesRun
      [] s = "loft" -> MaxFramesLoft
      [] s = "perch" -> MaxFramesPerch
      [] s = "raft" -> MaxFramesRaft

\* -------------------------------------------------------------------- state
VARIABLES
    session,    \* which map is loaded and which inputs the frames draw from
    player,     \* Game.player: the Player's fields
    dt,         \* Game.run's dt of the current frame, in ms
    pc,         \* position in the body of Game.run's loop
    frame,      \* number of frames started
    h,          \* history of the run, read by the properties only
    call,       \* the latest direct call of a function and what it returned
    enemies     \* Game.enemies: the Enemy objects alive, in list order

vars == <<session, player, dt, pc, frame, h, call, enemies>>

Solids == SolidsOf(session)

OneWays == OneWaysOf(session)

InSeq(q) == {q[i] : i \in 1..Len(q)}

\* self.surface_friction is first assigned at the end of the first frame
FrictionUnset == [num |-> 0, den |-> 0]

\* Player((TILE * 3, TILE * 2)) after Entity.__init__ and Player.__init__
NewPlayer ==
    [rect |-> Rect(P(TILE * 3), P(TILE * 2), P(PLAYER_W), P(PLAYER_H)),
     vel |-> [x |-> 0, y |-> 0],
     on_ground |-> FALSE,
     ignore_one_way_timer |-> 0,
     facing |-> 1,
     coyote_timer |-> 0,
     jump_buffer_timer |-> 0,
     prev_jump_down |-> FALSE,
     drop_intent_timer |-> 0,
     suppress_jump_timer |-> 0,
     input_dir |-> 0,
     surface_friction |-> FrictionUnset]

\* ---------------------------------------------------------------- history
\* edge      what handle_input of this frame recorded: "jump", "drop", "none"
\* grounded  on_ground as move_and_collide of this frame left it
\* landed    move_and_collide of this frame turned on_ground from false to true
\* fired     after_physics of this frame fired a jump
\* press     time from the start of the frame of the latest jump edge that was
\*           recorded airborne with no drop pending and no suppression, dt of
\*           that frame included; -1 once a drop edge or a fired jump used it up
\* pressDt   dt of the frame of that jump edge
\* airT      time since the last frame that ended move_and_collide grounded;
\*           -1 from the frame after a fired jump, or from a drop edge, until
\*           grounded again
\* dropTop   top of the one-way platform the body stood on when the latest drop
\*           was consumed (no solid under it); -1 once a jump has fired since
\* dropT     time since that drop was consumed
\* runT      time for which right has been held in every frame, grounded, since
\*           the body stood at rest; -1 otherwise
\* intent    the latest edge that handle_input recorded in this or an earlier
\*           frame: "jump", "drop", "none"
\* fires     number of jumps fired since that edge was recorded
\* dropFloor top of the solid the body stood on when the latest drop was
\*           consumed; -1 if there was no solid under it, and once a jump
\*           has fired since
\* aloft     a jump has fired and no move_and_collide has ended grounded since
\* respawned the player-enemy interaction of the frame just ended took its
\*           respawn branch
\* dropAge   ms of handle_input calls since the latest drop edge, that of the
\*           recording call included, counted up to DROP_THROUGH_TIME; -1
\*           when no drop was recorded or the latest one was consumed
NoHistory ==
    [edge |-> "none", grounded |-> FALSE, landed |-> FALSE, fired |-> FALSE,
     press |-> -1, pressDt |-> 0, airT |-> -1, dropTop |-> -1, dropT |-> 0,
     runT |-> -1, intent |-> "none", fires |-> 0, dropAge |-> -1, respawned |-> FALSE,
     aloft |-> FALSE, dropFloor |-> -1]

EdgeOf(p, keys) ==
    IF keys.jump /\ ~p.prev_jump_down
    THEN (IF keys.down THEN "drop" ELSE "jump")
    ELSE "none"

\* some solid tile lies directly under the rectangle
OnSolid(rect) ==
    \E t \in InSeq(Solids) :
        Top(t) = Bottom(rect) /\ Left(rect) < Right(t) /\ Right(rect) > Left(t)

JumpFired(p, q) ==
    /\ q.vel.y = -V(JUMP_SPEED)
    /\ p.jump_buffer_timer > 0
    /\ q.jump_buffer_timer = 0

DropConsumed(p, q) ==
    /\ p.drop_intent_timer > 0
    /\ q.drop_intent_timer = 0
    /\ q.ignore_one_way_timer = DROP_THROUGH_TIME

HistoryAtTick ==
    [h EXCEPT !.edge = "none", !.landed = FALSE, !.fired = FALSE,
              !.press = IF h.fired THEN -1 ELSE @,
              !.pressDt = IF h.fired THEN 0 ELSE @,
              !.airT = IF h.fired THEN -1 ELSE @]

HistoryAtInput(p, keys) ==
    LET e == EdgeOf(p, keys)
        tracked == ~p.on_ground /\ p.drop_intent_timer = 0
                   /\ p.suppress_jump_timer = 0
        d == (IF keys.right THEN 1 ELSE 0) - (IF keys.left THEN 1 ELSE 0)
        resting == p.on_ground /\ p.vel.x = 0 /\ p.vel.y = 0
    IN [h EXCEPT
          !.edge = e,
          !.intent = IF e = "none" THEN @ ELSE e,
          !.fires = IF e = "none" THEN @ ELSE 0,
          !.dropAge = IF e = "drop" THEN Min(dt, DROP_THROUGH_TIME)
                      ELSE IF @ >= 0 THEN Min(@ + dt, DROP_THROUGH_TIME)
                      ELSE -1,
          !.press = IF e = "jump" THEN (IF tracked THEN dt ELSE -1)
                    ELSE IF e = "drop" THEN -1
                    ELSE IF @ >= 0 THEN @ + dt ELSE -1,
          !.pressDt = IF e = "jump" THEN (IF tracked THEN dt ELSE 0)
                      ELSE IF e = "drop" THEN 0 ELSE @,
          !.airT = IF e = "drop" THEN -1 ELSE @,
          !.runT = IF d = 1 /\ p.on_ground /\ (@ >= 0 \/ resting)
                   THEN Max(@, 0) + dt ELSE -1]

HistoryAtPhysics(p, q) ==
    [h EXCEPT !.grounded = q.on_ground,
              !.aloft = IF q.on_ground THEN FALSE ELSE @,
              !.landed = ~p.on_ground /\ q.on_ground,
              !.airT = IF q.on_ground THEN 0
                       ELSE IF @ >= 0 THEN @ + dt ELSE -1,
              !.dropT = IF h.dropTop >= 0 THEN @ + dt ELSE 0]

HistoryAtPost(p, q) ==
    [h EXCEPT !.fired = JumpFired(p, q),
              !.aloft = IF JumpFired(p, q) THEN TRUE ELSE @,
              !.dropFloor = IF DropConsumed(p, q)
                            THEN (IF OnSolid(p.rect) THEN Bottom(p.rect) ELSE -1)
                            ELSE IF JumpFired(p, q) THEN -1 ELSE @,
              !.fires = IF JumpFired(p, q) THEN @ + 1 ELSE @,
              !.dropAge = IF DropConsumed(p, q) THEN -1 ELSE @,
              !.dropTop = IF DropConsumed(p, q)
                          THEN (IF OnSolid(p.rect) THEN -1 ELSE Bottom(p.rect))
                          ELSE IF JumpFired(p, q) THEN -1 ELSE @,
              !.dropT = IF DropConsumed(p, q) \/ JumpFired(p, q) THEN 0 ELSE @]

\* no arguments were passed
NoArgs == [vx |-> 0, dt |-> 0, input_dir |-> 0, on_ground |-> FALSE]

\* no function has been called directly
NoCall ==
    [op |-> "none", prev |-> "none", args |-> NoArgs, state |-> "none",
     friction |-> FrictionUnset, vx |-> 0]

\* ------------------------------------------------------------------ Game.run
Init ==
    /\ session \in Sessions
    /\ player = NewPlayer
    /\ dt = 0
    /\ pc = "tick"
    /\ frame = 0
    /\ h = NoHistory
    /\ call = NoCall
    /\ enemies = <<>>

\* dt = self.clock.tick(FPS) / 1000.0
ClockTick ==
    /\ pc = "tick"
    /\ frame < FramesOf(session)
    /\ \E d \in DtsOf(session) : dt' = d
    /\ frame' = frame + 1
    /\ pc' = "input"
    /\ h' = HistoryAtTick
    /\ UNCHANGED <<session, player, call, enemies>>

\* self.player.handle_input(dt), then update_ai of every enemy
HandleInput ==
    /\ pc = "input"
    /\ \E keys \in KeysOf(session) :
          /\ player' = handle_input(player, keys, dt)
          /\ h' = HistoryAtInput(player, keys)
    /\ enemies' = update_ai_all(enemies)
    /\ pc' = "physics"
    /\ UNCHANGED <<session, dt, frame, call>>

\* move_and_collide(dt, self.solid_tiles, self.one_way_tiles) of the player,
\* then of every enemy
MoveAndCollide ==
    /\ pc = "physics"
    /\ player' = move_and_collide(player, dt, Solids, OneWays)
    /\ enemies' = move_all(enemies, dt, Solids, OneWays)
    /\ h' = HistoryAtPhysics(player, player')
    /\ pc' = "post"
    /\ UNCHANGED <<session, dt, frame, call>>

\* self.player.after_physics(dt)
AfterPhysics ==
    /\ pc = "post"
    /\ player' = after_physics(player, dt)
    /\ h' = HistoryAtPost(player, player')
    /\ pc' = "friction"
    /\ UNCHANGED <<session, dt, frame, call, enemies>>

\* update surface friction for the next frame, then the player-enemy
\* interaction
UpdateFriction ==
    /\ pc = "friction"
    /\ LET p1 == [player EXCEPT !.surface_friction =
                     IF player.on_ground
                     THEN friction_under(TilemapOf(session), player.rect)
                     ELSE Frac(100, 1)]
           r == interact([player |-> p1, kept |-> <<>>, respawned |-> FALSE],
                         enemies)
       IN /\ player' = r.player
          /\ enemies' = r.kept
          /\ h' = [h EXCEPT !.respawned = r.respawned]
    /\ pc' = "tick"
    /\ UNCHANGED <<session, dt, frame, call>>

Next == ClockTick \/ HandleInput \/ MoveAndCollide \/ AfterPhysics \/ UpdateFriction

Spec == Init /\ [][Next]_vars

\* A driver that pauses: it calls handle_input and abandons the frame, with no
\* move_and_collide and no after_physics (Game.run itself never does this)
PausedFrame ==
    /\ pc = "input"
    /\ \E keys \in KeysOf(session) : player' = handle_input(player, keys, dt)
    /\ pc' = "tick"
    /\ UNCHANGED <<session, dt, frame, h, call, enemies>>

NextPause == Next \/ PausedFrame

InitPause == Init /\ session = "drop"

SpecPause == InitPause /\ [][NextPause]_vars

\* Game.run with the loft loaded
InitLoft ==
    /\ session = "loft"
    /\ player = NewPlayer
    /\ dt = 0
    /\ pc = "tick"
    /\ frame = 0
    /\ h = NoHistory
    /\ call = NoCall
    /\ enemies = <<>>

SpecLoft == InitLoft /\ [][Next]_vars

\* Game.run with the perch loaded: the body spawns in the air above it
InitPerch ==
    /\ session = "perch"
    /\ player = NewPlayer
    /\ dt = 0
    /\ pc = "tick"
    /\ frame = 0
    /\ h = NoHistory
    /\ call = NoCall
    /\ enemies = <<>>

SpecPerch == InitPerch /\ [][Next]_vars

\* Game.run with the raft loaded: the body can jump from it and fall past it
InitRaft ==
    /\ session = "raft"
    /\ player = NewPlayer
    /\ dt = 0
    /\ pc = "tick"
    /\ frame = 0
    /\ h = NoHistory
    /\ call = NoCall
    /\ enemies = <<>>

SpecRaft == InitRaft /\ [][Next]_vars

\* Game.run with the perch loaded and one enemy in self.enemies, standing on
\* the one-way platform left of the spawn column and walking toward it
EnemyXs == {P(62), P(78)}

InitEnemy ==
    /\ session = "perch"
    /\ player = NewPlayer
    /\ dt = 0
    /\ pc = "tick"
    /\ frame = 0
    /\ h = NoHistory
    /\ call = NoCall
    /\ \E x \in EnemyXs : enemies = <<Enemy(x, P(TILE * 4 - ENEMY_H))>>

SpecEnemy == InitEnemy /\ [][Next]_vars

\* ------------------------------------------------------------ direct calls
\* The functions called one at a time on a body and a map chosen freely, as a
\* caller of Entity / Player / TileMap may do.
CallVxs == {-V(MAX_SPEED), -2 * RUN_EPSILON, -RUN_EPSILON, 0, RUN_EPSILON,
            2 * RUN_EPSILON, V(MAX_SPEED)}

CallVys == {-V(JUMP_SPEED), -1, 0, 1, V(TERMINAL_V)}

\* half a pixel
HALF_PX == P(1) \div 2

\* left edges: left of the map, astride its left edge, inside it (whole and
\* half pixels, the right edge on and just past a tile boundary), astride its
\* right edge, right of it
CallXs == {P(-40), -HALF_PX, P(40), P(40) + HALF_PX, P(72), P(104) + HALF_PX,
           P(180), P(200)}

\* top edges: bottom at -68, -1.5, -1, 32, 96 and 232 px for a body 32 high
CallYs == {P(-100), P(-34) + HALF_PX, P(-33), P(0), P(64), P(200)}

\* the player's width and a body that spans three tiles
CallWs == {P(PLAYER_W), P(80)}

Bodies ==
    {[NewPlayer EXCEPT !.rect = Rect(x, y, w, P(PLAYER_H)),
                       !.vel = [x |-> vx, y |-> vy], !.on_ground = g] :
        x \in CallXs, y \in CallYs, w \in CallWs,
        vx \in CallVxs, vy \in CallVys, g \in BOOLEAN}

Called(op) == [NoCall EXCEPT !.op = op, !.prev = call.op]

InitCalls ==
    /\ session \in {"corridor", "platform", "rink", "void"}
    /\ player \in Bodies
    /\ dt = 0
    /\ pc = "call"
    /\ frame = 0
    /\ h = NoHistory
    /\ call = NoCall
    /\ enemies = <<>>

\* state = self._state_from_motion()
CallStateFromMotion ==
    /\ pc = "call"
    /\ call' = [Called("_state_from_motion") EXCEPT
                   !.state = _state_from_motion(player)]
    /\ UNCHANGED <<session, player, dt, pc, frame, h, enemies>>

\* self.tilemap.friction_under(self.player.rect)
CallFrictionUnder ==
    /\ pc = "call"
    /\ call' = [Called("friction_under") EXCEPT
                   !.friction = friction_under(TilemapOf(session), player.rect)]
    /\ UNCHANGED <<session, player, dt, pc, frame, h, enemies>>

NextCalls == CallStateFromMotion \/ CallFrictionUnder

SpecCalls == InitCalls /\ [][NextCalls]_vars

\* ------------------------------------------------------------------ claims
\* C1: after move_and_collide the body's rectangle overlaps the interior of
\* no solid obstacle (edge contact allowed), for every dt and velocity.
C1_NoSolidOverlap ==
    pc = "post" => \A t \in InSeq(Solids) : ~colliderect(player.rect, t)

\* a one-way obstacle may act in this call: the body's bottom before the
\* vertical integration is at or above its top and velocity.y after gravity
\* is not upward
Qualifies(o) ==
    /\ Bottom(horizontal_pass(player, dt, Solids)) <= Top(o)
    /\ gravity_vy(player.vel.y, dt) >= 0

\* C2: a one-way obstacle affects move_and_collide only when prev_bottom <=
\* obstacle.top and velocity.y >= 0 after gravity; otherwise the step ends
\* exactly as if that one-way were absent.
C2_OneWayOnlyFromAbove ==
    [][pc = "physics" =>
        player' = move_and_collide(player, dt, Solids,
                                   SelectSeq(OneWays, Qualifies))]_vars

\* C6: after every handle_input, |velocity.x| <= MAX_SPEED.
C6_SpeedBounded == pc = "physics" => Abs(player.vel.x) <= V(MAX_SPEED)

\* handle_input has brought velocity.x to exactly MAX_SPEED
C6_Witness == pc = "physics" /\ Abs(player.vel.x) = V(MAX_SPEED)

\* C7: every timer is >= 0 in every reachable state.
C7_TimersNonNegative ==
    /\ player.coyote_timer >= 0
    /\ player.jump_buffer_timer >= 0
    /\ player.drop_intent_timer >= 0
    /\ player.suppress_jump_timer >= 0
    /\ player.ignore_one_way_timer >= 0

\* the decrement of ignore_one_way_timer that crossed zero was clamped to it
C7_Witness ==
    /\ pc = "post"
    /\ h.dropTop >= 0
    /\ h.dropT - dt < DROP_THROUGH_TIME
    /\ h.dropT > DROP_THROUGH_TIME
    /\ player.ignore_one_way_timer = 0

\* C3: a jump edge recorded while airborne (no drop pending, no suppression)
\* still fires at landing: when the frames from the one of the press through
\* the one of the landing add up to less than JUMP_BUFFER_TIME, after_physics
\* of the landing frame sets velocity.y = -JUMP_SPEED.
C3_JumpBuffer ==
    (pc = "friction" /\ h.landed /\ h.press >= 0 /\ h.press < JUMP_BUFFER_TIME)
        => (h.fired /\ player.vel.y = -V(JUMP_SPEED))

\* a press buffered for at least two frames fires on landing
C3_Witness ==
    /\ pc = "friction"
    /\ h.landed
    /\ h.press >= h.pressDt + 100
    /\ h.press < JUMP_BUFFER_TIME
    /\ h.fired

\* C4: coyote time, t counted from the last frame that ended grounded: a jump
\* edge in a frame with t < COYOTE_TIME (t = 0.15 s) fires in that frame's
\* after_physics; once t > COYOTE_TIME (t = 0.25 s) no jump fires while the
\* body stays airborne.
C4_CoyoteTime ==
    pc = "friction" =>
        /\ (h.airT > 0 /\ h.airT < COYOTE_TIME /\ h.edge = "jump"
            /\ player.suppress_jump_timer = 0)
               => (h.fired /\ player.vel.y = -V(JUMP_SPEED))
        /\ (h.airT > COYOTE_TIME) => ~h.fired

\* a jump edge 0.15 s after leaving the ground fires
C4_Witness ==
    /\ pc = "friction"
    /\ h.airT = 150
    /\ h.edge = "jump"
    /\ h.fired

\* a jump edge 0.25 s after leaving the ground, the body still airborne
C4_LateWitness ==
    /\ pc = "friction"
    /\ h.airT >= 250
    /\ h.edge = "jump"
    /\ ~h.grounded
    /\ ~h.fired

\* C5: a drop edge (jump pressed with down held) while the body stands on a
\* one-way platform is consumed in that frame; one-way collisions are then
\* ignored for DROP_THROUGH_TIME, the body ends every later step below the
\* platform's top instead of back on it, and no jump fires while
\* suppress_jump_timer > 0.
C5_DropThrough ==
    /\ (pc = "friction" /\ h.edge = "drop" /\ h.grounded /\ ~OnSolid(player.rect))
          => /\ h.dropTop = Bottom(player.rect)
             /\ player.ignore_one_way_timer = DROP_THROUGH_TIME
             /\ player.vel.y >= V(DROP_NUDGE)
             /\ ~h.fired
    /\ (pc = "post" /\ h.dropTop >= 0)
          => /\ Bottom(player.rect) > h.dropTop
             /\ player.ignore_one_way_timer = Max(0, DROP_THROUGH_TIME - h.dropT)
    /\ (pc = "friction" /\ h.fired) => player.suppress_jump_timer = 0

\* the ignore window has run out with the body inside the platform it left
C5_Witness ==
    /\ pc = "post"
    /\ h.dropTop >= 0
    /\ h.dropT >= DROP_THROUGH_TIME
    /\ player.ignore_one_way_timer = 0
    /\ ~player.on_ground
    /\ \E o \in InSeq(OneWays) : Top(o) = h.dropTop /\ colliderect(player.rect, o)

\* C8: a handle_input call that is not followed by move_and_collide and
\* after_physics leaves jump_buffer_timer, suppress_jump_timer and
\* drop_intent_timer un-ticked: they hold what the recorded intent (if any)
\* set, not dt less.
C8_PausedFrameDoesNotTick ==
    [][(pc = "input" /\ pc' = "tick") =>
         LET edge == player'.prev_jump_down /\ ~player.prev_jump_down
             same == /\ player'.jump_buffer_timer = player.jump_buffer_timer
                     /\ player'.suppress_jump_timer = player.suppress_jump_timer
                     /\ player'.drop_intent_timer = player.drop_intent_timer
             jump == /\ player'.jump_buffer_timer = JUMP_BUFFER_TIME
                     /\ player'.suppress_jump_timer = player.suppress_jump_timer
                     /\ player'.drop_intent_timer = player.drop_intent_timer
             drop == /\ player'.jump_buffer_timer = 0
                     /\ player'.suppress_jump_timer =
                            Max(player.suppress_jump_timer, DROP_THROUGH_TIME \div 2)
                     /\ player'.drop_intent_timer = DROP_THROUGH_TIME
         IN IF edge THEN jump \/ drop ELSE same]_vars

\* C9: with no horizontal input and the body grounded, handle_input moves
\* velocity.x toward 0 by at most FRICTION_GROUND * surface_friction * dt,
\* surface_friction being the sample of the previous frame.
C9_FrictionScaled ==
    [][(pc = "input" /\ player'.input_dir = 0 /\ player.on_ground
        /\ player.surface_friction.den > 0) =>
          /\ Abs(player'.vel.x) <= Abs(player.vel.x)
          /\ Abs(player.vel.x - player'.vel.x) * 100 * player.surface_friction.den
                <= FRICTION_GROUND * dt * player.surface_friction.num]_vars

\* C10: from rest on the ground with right held in every frame, velocity.x
\* never decreases, is exactly MAX_SPEED from the first frame whose
\* accumulated time reaches MAX_SPEED / ACCEL_GROUND, and stays there.
C10_Acceleration ==
    [][(pc = "input" /\ h'.runT >= 0) =>
          /\ player'.vel.x >= player.vel.x
          /\ player'.vel.x <= V(MAX_SPEED)
          /\ (h'.runT * ACCEL_GROUND >= V(MAX_SPEED)) => player'.vel.x = V(MAX_SPEED)
          /\ (h'.runT * ACCEL_GROUND < V(MAX_SPEED)) => player'.vel.x = h'.runT * ACCEL_GROUND]_vars

\* right has been held for a full second and velocity.x is MAX_SPEED
C10_Witness ==
    /\ pc = "physics"
    /\ h.runT >= MS_PER_S
    /\ player.vel.x = V(MAX_SPEED)

\* ------------------------------------------------- direct calls, fine scale
\* _next_velocity_x called on velocities counted in 1/1000000 px/s, where its
\* threshold of 1e-5 px/s is 10, and dt in microseconds.
US_PER_S == 1000000

\* velocities at, next to and far from 0, the threshold and MAX_SPEED
FineVxs == {-MAX_SPEED * US_PER_S, -100 * US_PER_S, -11, -10, -1, 0, 1, 10, 11,
            100 * US_PER_S, MAX_SPEED * US_PER_S - 1000, MAX_SPEED * US_PER_S,
            300 * US_PER_S}

\* a microsecond, 1/60 s, 1/20 s
FineDts == {1, 16667, 50000}

InitVelocity ==
    /\ session = "void"
    /\ player = NewPlayer
    /\ dt = 0
    /\ pc = "call"
    /\ frame = 0
    /\ h = NoHistory
    /\ call = NoCall
    /\ enemies = <<>>

\* vx = self._next_velocity_x(vx, dt, input_dir, on_ground)
CallNextVelocityX ==
    /\ pc = "call"
    /\ \E vx \in FineVxs, d \in FineDts, i \in {-1, 0, 1}, g \in BOOLEAN :
          call' = [Called("_next_velocity_x") EXCEPT
                      !.args = [vx |-> vx, dt |-> d, input_dir |-> i,
                                on_ground |-> g],
                      !.vx = _next_velocity_x_at(US_PER_S, vx, d, i, g)]
    /\ UNCHANGED <<session, player, dt, pc, frame, h, enemies>>

SpecVelocity == InitVelocity /\ [][CallNextVelocityX]_vars

\* C11: _state_from_motion depends on velocity and on_ground only: grounded
\* gives "run" when |velocity.x| > epsilon and "idle" otherwise, airborne gives
\* "jump" when velocity.y < 0 and "fall" otherwise; the call changes nothing of
\* the body, and a second call on the unchanged body returns the same state.
C11_StateFromMotion ==
    [][call'.op = "_state_from_motion" =>
         /\ player' = player
         /\ (player.on_ground /\ Abs(player.vel.x) > RUN_EPSILON)
                => call'.state = "run"
         /\ (player.on_ground /\ Abs(player.vel.x) <= RUN_EPSILON)
                => call'.state = "idle"
         /\ (~player.on_ground /\ player.vel.y < 0) => call'.state = "jump"
         /\ (~player.on_ground /\ player.vel.y >= 0) => call'.state = "fall"
         /\ (call.op = "_state_from_motion") => call'.state = call.state]_vars

\* a second call in a row on an airborne body at the apex of its jump
C11_Witness ==
    /\ call.op = "_state_from_motion"
    /\ call.prev = "_state_from_motion"
    /\ ~player.on_ground
    /\ player.vel.y = 0
    /\ call.state = "fall"

\* the columns of the grid that the half-open span [left, right) touches
SpannedCols(tm, rect) ==
    {c \in 0..(Len(tm.grid[1]) - 1) :
        c * P(TILE) < Right(rect) /\ (c + 1) * P(TILE) > Left(rect)}

\* the sampled row as friction_under computes it, when it lies in the grid
SampledRow(rect) == (int_px(Bottom(rect)) + 1) \div TILE

RECURSIVE SumOver(_, _)
SumOver(f, cols) ==
    IF cols = {} THEN 0
    ELSE LET c == CHOOSE x \in cols : TRUE
         IN f[c] + SumOver(f, cols \ {c})

\* mean friction of the non-empty tiles of a row over a set of columns; 1.0
\* when there is none
MeanFriction(tm, row, cols) ==
    LET tiles == {c \in cols : tm.grid[row + 1][c + 1] # -1}
        f == [c \in tiles |-> props_get(tm.props, tm.grid[row + 1][c + 1]).friction]
    IN IF tiles = {} THEN Frac(100, 1)
       ELSE Frac(SumOver(f, tiles), Cardinality(tiles))

\* C12: friction_under returns the mean friction of exactly the non-empty
\* tiles of the sampled row in the columns spanned by [left, right), a tile
\* type missing from the table counting as 1.0, and 1.0 when no tile is
\* sampled or the grid is empty.
C12_FrictionMean ==
    [][call'.op = "friction_under" =>
         LET tm == TilemapOf(session)
             row == SampledRow(player.rect)
         IN call'.friction =
              IF Len(tm.grid) = 0 \/ row < 0 \/ row >= Len(tm.grid)
              THEN Frac(100, 1)
              ELSE MeanFriction(tm, row, SpannedCols(tm, player.rect))]_vars

\* the row floor((bottom + 1) / tile_height)
FloorRow(rect) == (Bottom(rect) + P(1)) \div P(TILE)

\* C13: for every body rectangle, also one outside the grid, friction_under
\* returns a value, and it returns 1.0 whenever the row floor((bottom + 1) /
\* tile_height) is outside the grid's rows or the body's column span is wholly
\* outside the grid's columns.
C13_FrictionOutOfRange ==
    [][call'.op = "friction_under" =>
         LET tm == TilemapOf(session)
             outside == \/ Len(tm.grid) = 0
                        \/ FloorRow(player.rect) < 0
                        \/ FloorRow(player.rect) >= Len(tm.grid)
                        \/ SpannedCols(tm, player.rect) = {}
         IN /\ call'.friction.den > 0
            /\ outside => call'.friction = Frac(100, 1)]_vars

\* the body as the vertical pass finds it: after the horizontal pass, gravity
\* and the vertical integration, on_ground reset
vertical_start(e, d, solids) ==
    LET r2 == horizontal_pass(e, d, solids)
        vy1 == gravity_vy(e.vel.y, d)
    IN [rect |-> [r2 EXCEPT !.y = @ + vy1 * d], vy |-> vy1, on_ground |-> FALSE]

\* every hit resolved in list order, each against the direction the body
\* moved in: falling snaps the bottom to the hit's top, rising the top to its
\* bottom
RECURSIVE resolve_each(_, _, _)
resolve_each(s, vy, hits) ==
    IF hits = <<>> THEN s
    ELSE LET t == Head(hits)
             s2 == IF vy > 0
                   THEN [rect |-> [s.rect EXCEPT !.y = Top(t) - s.rect.h],
                         vy |-> 0, on_ground |-> TRUE]
                   ELSE IF vy < 0
                   THEN [rect |-> [s.rect EXCEPT !.y = Bottom(t)],
                         vy |-> 0, on_ground |-> s.on_ground]
                   ELSE s
         IN resolve_each(s2, vy, Tail(hits))

\* C14: when several solids overlap the body after the vertical integration,
\* each of them is resolved in that pass, in the order of the caller's list:
\* the step ends as the one-way pass leaves the body with every hit resolved.
C14_EveryHitResolved ==
    [][pc = "physics" =>
         LET s3 == vertical_start(player, dt, Solids)
             hits == Hits(s3.rect, Solids)
             o == one_way_pass(resolve_each(s3, s3.vy, hits),
                               Bottom(horizontal_pass(player, dt, Solids)),
                               player.ignore_one_way_timer, dt, OneWays)
         IN /\ player'.rect = o.s.rect
            /\ player'.vel.y = o.s.vy
            /\ player'.on_ground = o.s.on_ground]_vars

\* C15: the vertical pass resets on_ground; a solid hit while falling snaps
\* the bottom to the obstacle's top, zeroes velocity.y and grounds the body; a
\* solid hit while rising snaps the top to the obstacle's bottom and zeroes
\* velocity.y without grounding it; on_ground after the step is true only if
\* the body landed on a solid or on a one-way in this step.
C15_VerticalPass ==
    [][pc = "physics" =>
         LET s3 == vertical_start(player, dt, Solids)
             hits == Hits(s3.rect, Solids)
             hit == hits # <<>> /\ s3.vy # 0
             snapped == IF ~hit THEN s3.rect
                        ELSE IF s3.vy > 0
                        THEN [s3.rect EXCEPT !.y = Top(Head(hits)) - s3.rect.h]
                        ELSE [s3.rect EXCEPT !.y = Bottom(Head(hits))]
             prev_bottom == Bottom(horizontal_pass(player, dt, Solids))
             lands == /\ player.ignore_one_way_timer = 0
                      /\ (hit \/ s3.vy >= 0)
                      /\ \E o \in InSeq(OneWays) :
                            colliderect(snapped, o) /\ prev_bottom <= Top(o)
         IN /\ (hit /\ s3.vy > 0) =>
                 /\ player'.on_ground
                 /\ player'.vel.y = 0
                 /\ ~lands => Bottom(player'.rect) = Top(Head(hits))
            /\ (hit /\ s3.vy < 0) =>
                 /\ player'.vel.y = 0
                 /\ ~lands => /\ Top(player'.rect) = Bottom(Head(hits))
                              /\ ~player'.on_ground
            /\ player'.on_ground <=> ((hit /\ s3.vy > 0) \/ lands)]_vars

\* after a ceiling hit: at rest against the underside of a solid, not grounded
C15_Witness ==
    /\ pc = "post"
    /\ player.vel.y = 0
    /\ ~player.on_ground
    /\ \E t \in InSeq(Solids) :
          /\ Bottom(t) = Top(player.rect)
          /\ Left(player.rect) < Right(t)
          /\ Right(player.rect) > Left(t)

\* C16: a jump edge with down held records a drop and no jump: handle_input
\* leaves drop_intent_timer at DROP_THROUGH_TIME less this frame's tick,
\* suppress_jump_timer at no less than DROP_THROUGH_TIME / 2 less the tick,
\* jump_buffer_timer and coyote_timer at 0; and as long as the drop is the
\* latest edge recorded, no jump fires.
C16_DropOverridesJump ==
    /\ (pc = "physics" /\ h.edge = "drop") =>
          /\ player.drop_intent_timer = Max(0, DROP_THROUGH_TIME - dt)
          /\ player.suppress_jump_timer >= Max(0, DROP_THROUGH_TIME \div 2 - dt)
          /\ player.jump_buffer_timer = 0
          /\ player.coyote_timer = 0
    /\ (pc = "friction" /\ h.intent = "drop") => ~h.fired

\* the body lands after a drop request that has expired in the air: nothing
\* is suppressed or ignored any more, and no jump fires
C16_Witness ==
    /\ pc = "friction"
    /\ h.intent = "drop"
    /\ h.landed
    /\ player.on_ground
    /\ player.drop_intent_timer = 0
    /\ player.suppress_jump_timer = 0
    /\ player.ignore_one_way_timer = 0
    /\ ~h.fired

\* C17: intents are edge-triggered: handle_input (re)starts jump_buffer_timer
\* or drop_intent_timer only in a frame where jump is held and was not held
\* in the previous call; in any other frame both only count down; and no edge
\* fires more than one jump.
C17_EdgeTriggered ==
    [][/\ pc = "input" =>
            LET edge == player'.prev_jump_down /\ ~player.prev_jump_down
                ticked(t) == IF t > dt THEN t - dt ELSE 0
            IN /\ ~edge =>
                    /\ player'.jump_buffer_timer = ticked(player.jump_buffer_timer)
                    /\ player'.drop_intent_timer = ticked(player.drop_intent_timer)
               /\ edge =>
                    \/ /\ player'.jump_buffer_timer = ticked(JUMP_BUFFER_TIME)
                       /\ player'.drop_intent_timer = ticked(player.drop_intent_timer)
                    \/ /\ player'.drop_intent_timer = ticked(DROP_THROUGH_TIME)
                       /\ player'.jump_buffer_timer = 0
       /\ h'.fires <= 1]_vars

\* the body lands again with the button still held from the press that fired
\* the jump: nothing fires
C17_Witness ==
    /\ pc = "friction"
    /\ h.intent = "jump"
    /\ h.fires = 1
    /\ h.edge = "none"
    /\ player.prev_jump_down
    /\ h.landed
    /\ ~h.fired

\* C18: after_physics consumes a pending drop intent exactly when the body is
\* on the ground: then ignore_one_way_timer = DROP_THROUGH_TIME,
\* suppress_jump_timer >= DROP_THROUGH_TIME / 2, drop_intent_timer = 0,
\* vel.y >= 30 and no jump fires, a buffered jump or not; in the air the
\* intent stays pending, and it runs out once DROP_THROUGH_TIME has passed
\* since it was recorded.
C18_DropConsumedOnGround ==
    [][/\ (pc = "post" /\ player.drop_intent_timer > 0 /\ player.on_ground) =>
            /\ player'.ignore_one_way_timer = DROP_THROUGH_TIME
            /\ player'.suppress_jump_timer >= DROP_THROUGH_TIME \div 2
            /\ player'.drop_intent_timer = 0
            /\ player'.vel.y >= V(DROP_NUDGE)
            /\ player'.on_ground
            /\ player'.jump_buffer_timer = player.jump_buffer_timer
       /\ (pc = "post" /\ player.drop_intent_timer > 0 /\ ~player.on_ground) =>
            /\ player'.drop_intent_timer = player.drop_intent_timer
            /\ player'.ignore_one_way_timer = player.ignore_one_way_timer
            /\ player'.vel.y = player.vel.y
       /\ h'.dropAge >= 0 =>
            player'.drop_intent_timer = DROP_THROUGH_TIME - h'.dropAge]_vars

\* a drop intent recorded in the air is consumed on landing while a jump
\* pressed after it is still buffered
C18_Witness ==
    /\ pc = "friction"
    /\ h.landed
    /\ player.ignore_one_way_timer = DROP_THROUGH_TIME
    /\ player.drop_intent_timer = 0
    /\ player.jump_buffer_timer > 0
    /\ player.on_ground
    /\ ~h.fired

\* C19: a move_and_collide call entered with ignore_one_way_timer > 0 leaves
\* the body where a map without one-way tiles would and takes dt off the
\* timer, stopping at 0; a call entered with the timer at 0 leaves it at 0
\* and, once the solids are done, lands a body that is not rising on the
\* one-way tiles it overlaps and came from above of.
C19_IgnoreOneWayTimer ==
    [][pc = "physics" =>
         LET alone == move_and_collide(player, dt, Solids, <<>>)
             prev_bottom == Bottom(horizontal_pass(player, dt, Solids))
             hits == one_way_hits(alone.rect, prev_bottom, OneWays)
         IN /\ player.ignore_one_way_timer > 0 =>
                 /\ player'.ignore_one_way_timer
                       = Max(0, player.ignore_one_way_timer - dt)
                 /\ player'.rect = alone.rect
                 /\ player'.vel = alone.vel
                 /\ player'.on_ground = alone.on_ground
            /\ player.ignore_one_way_timer = 0 =>
                 /\ player'.ignore_one_way_timer = 0
                 /\ IF alone.vel.y >= 0 /\ hits # <<>>
                    THEN /\ Bottom(player'.rect) = Top(hits[Len(hits)])
                         /\ player'.vel.y = 0
                         /\ player'.on_ground
                    ELSE player' = alone]_vars

\* the first pass after a drop was consumed: the body has sunk into the
\* one-way tile it stood on and the timer has lost this frame's dt
C19_Witness ==
    /\ pc = "post"
    /\ h.dropTop >= 0
    /\ h.dropT = dt
    /\ player.ignore_one_way_timer = DROP_THROUGH_TIME - dt
    /\ ~player.on_ground
    /\ \E o \in InSeq(OneWays) :
          Top(o) = h.dropTop /\ colliderect(player.rect, o)

\* v moved toward goal by d at most
Toward(v, goal, d) == v + _sign(goal - v) * Min(Abs(goal - v), d)

\* C20: with input_dir # 0, _next_velocity_x first moves vx toward 0 by at
\* most decel * dt, and that only when vx opposes the input and
\* |vx| > 1e-5 px/s, then moves it toward input_dir * MAX_SPEED by at most
\* accel * dt, with the ground rates on the ground and the air rates in the
\* air; the result is never past the target and differs from vx by at most
\* (decel + accel) * dt.
C20_BrakeThenAccelerate ==
    (call.op = "_next_velocity_x" /\ call.args.input_dir # 0) =>
        LET a == call.args
            target == a.input_dir * MAX_SPEED * US_PER_S
            accel == IF a.on_ground THEN ACCEL_GROUND ELSE ACCEL_AIR
            decel == IF a.on_ground THEN DECEL_GROUND ELSE DECEL_AIR
            opposes == a.vx * a.input_dir < 0
            brakes == opposes /\ Abs(a.vx) > US_PER_S \div DECEL_EPSILON_INV
            braked == IF brakes THEN Toward(a.vx, 0, decel * a.dt) ELSE a.vx
        IN /\ call.vx = Toward(braked, target, accel * a.dt)
           /\ a.vx <= target => call.vx <= target
           /\ a.vx >= target => call.vx >= target
           /\ Abs(call.vx - a.vx) <= (decel + accel) * a.dt

\* an opposing velocity just over the threshold is braked to 0 and the body
\* then accelerated the other way: more change than accel * dt alone gives
C20_Witness ==
    /\ call.op = "_next_velocity_x"
    /\ call.args.on_ground
    /\ call.args.input_dir = 1
    /\ call.args.vx = -11
    /\ call.args.dt = 1
    /\ call.vx = ACCEL_GROUND
    /\ call.vx - call.args.vx > ACCEL_GROUND * call.args.dt

\* C21: move_and_collide leaves velocity.x as it found it; a body that runs
\* into solids ends with its leading edge on the facing edge of one of them.
C21_VelocityXKept ==
    [][pc = "physics" =>
         LET r1 == [player.rect EXCEPT !.x = @ + player.vel.x * dt]
             hits == InSeq(Hits(r1, Solids))
         IN /\ player'.vel.x = player.vel.x
            /\ (hits # {} /\ player.vel.x > 0) =>
                  \E t \in hits : Right(player'.rect) = Left(t)
            /\ (hits # {} /\ player.vel.x < 0) =>
                  \E t \in hits : Left(player'.rect) = Right(t)
            /\ hits = {} => Left(player'.rect) = Left(r1)]_vars

\* the body is held at a wall on its left and still has its speed leftward
C21_Witness ==
    /\ pc = "post"
    /\ player.vel.x < 0
    /\ \E t \in InSeq(Solids) :
          /\ Left(player.rect) = Right(t)
          /\ Top(player.rect) < Bottom(t)
          /\ Bottom(player.rect) > Top(t)

\* C22: move_and_collide sets velocity.y to
\* min(velocity.y + GRAVITY * dt, TERMINAL_V) and integrates position.y with
\* that value (a collision then zeroes it); velocity.y <= TERMINAL_V after
\* every move_and_collide, and from velocity (0, 0) velocity.y never leaves
\* [-JUMP_SPEED, TERMINAL_V].
C22_GravityAndTerminalVelocity ==
    [][/\ pc = "physics" =>
            LET vy1 == Min(player.vel.y + GRAVITY * dt, V(TERMINAL_V))
            IN /\ player'.vel.y \in {vy1, 0}
               /\ player'.vel.y <= V(TERMINAL_V)
               /\ (player'.vel.y = vy1 /\ ~player'.on_ground) =>
                     Top(player'.rect) = Top(player.rect) + vy1 * dt
       /\ player'.vel.y >= -V(JUMP_SPEED)
       /\ player'.vel.y <= V(TERMINAL_V)]_vars

\* a long fall: gravity would take the body past TERMINAL_V in this frame,
\* and it moved at TERMINAL_V
C22_Witness ==
    /\ pc = "post"
    /\ ~player.on_ground
    /\ player.vel.y = V(TERMINAL_V)
    /\ h.dropT > 0
    /\ h.dropT * GRAVITY + V(DROP_NUDGE) > V(TERMINAL_V)

\* C23: after the respawn branch of the player-enemy interaction the player
\* is at the spawn point with velocity (0, 0) and coyote_timer,
\* jump_buffer_timer, drop_intent_timer, suppress_jump_timer and
\* ignore_one_way_timer all 0.
C23_RespawnResets ==
    (pc = "tick" /\ h.respawned) =>
        /\ player.rect.x = P(TILE * 3)
        /\ player.rect.y = P(TILE * 2)
        /\ player.vel = [x |-> 0, y |-> 0]
        /\ player.coyote_timer = 0
        /\ player.jump_buffer_timer = 0
        /\ player.drop_intent_timer = 0
        /\ player.suppress_jump_timer = 0
        /\ player.ignore_one_way_timer = 0

\* C24: no double jump: when after_physics fires a jump after an earlier
\* one, some move_and_collide in between ended with on_ground = true; a
\* body that stays airborne after a jump fires no second one.
C24_NoDoubleJump ==
    [][(pc = "post" /\ h.aloft) =>
          /\ ~JumpFired(player, player')
          /\ player'.vel.y = player.vel.y]_vars

\* jump is pressed again in the air after a fired jump: nothing fires
C24_Witness ==
    /\ pc = "friction"
    /\ h.aloft
    /\ h.edge = "jump"
    /\ ~player.on_ground
    /\ player.suppress_jump_timer = 0
    /\ player.jump_buffer_timer > 0
    /\ ~h.fired

\* the obstacles a rectangle stands on, for a body with the given
\* ignore_one_way_timer
Under(rect, timer) ==
    {t \in InSeq(Solids) \cup (IF timer = 0 THEN InSeq(OneWays) ELSE {}) :
        Top(t) = Bottom(rect) /\ Left(rect) < Right(t) /\ Right(rect) > Left(t)}

\* a body with velocity.y = 0 on top of a solid, or of a one-way tile with
\* ignore_one_way_timer = 0, and still on top of one after this call's
\* horizontal pass
Resting(p, d) ==
    /\ d > 0
    /\ p.vel.y = 0
    /\ Under(p.rect, p.ignore_one_way_timer) # {}
    /\ Under(horizontal_pass(p, d, Solids), p.ignore_one_way_timer) # {}

StaysGrounded(p, q) ==
    /\ q.on_ground
    /\ q.vel.y = 0
    /\ Bottom(q.rect) = Bottom(p.rect)

\* C25: a resting body is still grounded, with velocity.y = 0 and
\* its bottom on the obstacle's top, after every move_and_collide with dt > 0.
C25_RestingStaysGrounded ==
    [][(pc = "physics" /\ Resting(player, dt)) =>
          StaysGrounded(player, player')]_vars

\* C26: right after every move_and_collide, on_ground = true implies
\* velocity.y = 0.
C26_GroundedMeansNoFall ==
    (pc = "post" /\ player.on_ground) => player.vel.y = 0

\* the body has just landed on the one-way platform from a fall
C26_Witness ==
    /\ pc = "post"
    /\ h.landed
    /\ player.on_ground
    /\ player.vel.y = 0
    /\ ~OnSolid(player.rect)
    /\ \E t \in InSeq(OneWays) : t \in Under(player.rect, 0)

\* C27: after a drop intent was consumed on a solid, every move_and_collide
\* of the ignore window that starts and, after its horizontal pass, still is
\* over a solid with that top ends with the body grounded on it; and no
\* jump fires while suppress_jump_timer > 0.
C27_NoDropThroughSolids ==
    [][/\ (/\ pc = "physics"
           /\ h.dropFloor >= 0
           /\ player.ignore_one_way_timer > 0
           /\ \E t \in InSeq(Solids) :
                 /\ Top(t) = h.dropFloor
                 /\ Left(horizontal_pass(player, dt, Solids)) < Right(t)
                 /\ Right(horizontal_pass(player, dt, Solids)) > Left(t)) =>
            /\ player'.on_ground
            /\ player'.vel.y = 0
            /\ Bottom(player'.rect) = h.dropFloor
       /\ (pc = "post" /\ player.suppress_jump_timer > 0) =>
            ~JumpFired(player, player')]_vars

====
